---- MODULE Spec2Model ----
(***************************************************************************)
(* Model of the chat client of daydaylx/openchatv1.                        *)
(*                                                                         *)
(*  - SpecBudget: the context budgeter MainWindow._prepare_api_context    *)
(*    applied to every chat and setting of the bounded input domains       *)
(*  - Spec: the application of src/openchat_with_plugins.py: _send, the    *)
(*    worker thread, its queued signals and their slots                    *)
(*  - SpecHistory: the retention-capped ChatHistory of src/src/models.py   *)
(*  - SpecTrim: ChatHistory._trim_history applied twice to every history    *)
(*    of the bounded input domains                                          *)
(*  - SpecStore: the message stores of the two desktop clients, ChatWidget *)
(*    and desktop_app's ChatHistory, driven through their public methods   *)
(*  - SpecDesktop: the application of src/desktop_app.py                   *)
(***************************************************************************)
EXTENDS Integers, Sequences, FiniteSets, TLC

VARIABLES
    messages,        \* ChatWidget.messages: sequence of Message objects
    streaming_msg,   \* ChatWidget._streaming_msg: index into messages, 0 = None
    system_prompt,   \* settings "system_prompt"
    send_context,    \* settings "send_context"
    context_limit,   \* context_length of the selected model
    max_tokens_val,  \* settings "max_tokens"
    final_messages,  \* the list _prepare_api_context returned last
    current_worker,  \* MainWindow._current_worker: "None" or "worker"
    ui_requesting,   \* _set_ui_for_request(True) is in effect
    now,             \* datetime.now(), as a tick counter
    pc,              \* which specification runs: "start"/"done", "app" or "history"
    streaming,       \* settings "streaming"
    w_pc,            \* ApiWorker.make_request: "none", "queued", "lines", "finally", "done"
    w_stop,          \* ApiWorker.stop_requested of the current worker
    w_stream,        \* ApiWorker.stream
    w_lines,         \* fragments the worker, or the caller of a store, has handed over
    signals,         \* queued signals from the worker thread to the GUI thread
    ch_messages,     \* ChatHistory.messages (src/src/models.py, src/desktop_app.py)
    ch_max_length,   \* ChatHistory.max_length
    file,            \* the records handed to import_history last
    raised,          \* exception raised in the last call of a store method or in
                     \* the running make_request of desktop_app, or "None"
    op,              \* the store method called last
    current_assistant_message,  \* desktop_app MainWindow.current_assistant_message
    w_waiting,       \* make_request calls queued on the API thread behind the running one
    plugins,         \* PluginManager.plugins: the loaded plugins in load order
    hook_calls,      \* the plugin hooks called by the handler that dispatched last
    chatbot          \* main_app: the pairs the Chatbot component displays

vars == <<messages, streaming_msg, system_prompt, send_context, context_limit,
          max_tokens_val, final_messages, current_worker, ui_requesting, now,
          pc, streaming, w_pc, w_stop, w_stream, w_lines, signals,
          ch_messages, ch_max_length, file, raised, op,
          current_assistant_message, w_waiting, plugins, hook_calls, chatbot>>

chatVars == <<messages, streaming_msg, final_messages, current_worker,
              ui_requesting, now>>
settingsVars == <<system_prompt, send_context, context_limit, max_tokens_val,
                  streaming>>
workerVars == <<w_pc, w_stop, w_stream, w_lines, signals>>
historyVars == <<ch_messages, ch_max_length>>
ioVars == <<file, raised, op>>
desktopVars == <<current_assistant_message, w_waiting>>
pluginVars == <<plugins, hook_calls>>
webVars == <<chatbot>>

----------------------------------------------------------------------------
(* Bounds of the model *)

MaxMsgs == 3         \* longest chat drawn as an input of the budgeter
MaxClock == 4        \* messages created per run of the application
MaxCap == 3          \* largest ChatHistory.max_length tried
MaxChunks == 2       \* fragments streamed per request
MaxHist == 4         \* longest ChatHistory drawn as an input of the trimming
MaxStore == 2        \* messages added to a store by add_message

(* Program constants *)

SAFETY_BUFFER == 500           \* the fixed buffer in safety_margin
DEFAULT_CONTEXT_LIMIT == 8192  \* context_length when the model is unknown

----------------------------------------------------------------------------
(* Input domains *)

\* import_history accepts any role, so a stored message may carry "system"
Roles == {"user", "assistant", "system"}

\* contents of 0, 2, 3 and 7 characters
Texts == {"", "hi", "hey", "hello!!"}

\* what the user can type, after strip(); "" is the blank input
UserTexts == {"", "hi", "hello!!", "/clear"}

\* text fragments the completion endpoint can stream; the second is an
\* empty fenced code block, its fence written ~~~ (see CodeFence)
Fragments == {"Hel", "~~~\n~~~"}

\* settings the application is started with
AppContextLimits == {756, 759}
AppMaxTokens == {256}

Prompts == {"", "Be terse"}

\* chosen around max_tokens + SAFETY_BUFFER so that the budget left for the
\* history is negative, zero, a few tokens, or ample
ContextLimits == {756, 758, 759, DEFAULT_CONTEXT_LIMIT}

MaxTokensChoices == {256, 258}

----------------------------------------------------------------------------
(* Message (src/plugin_interface.py) *)

\* Message.__init__
Message(role, content, timestamp) ==
    [role |-> role, content |-> content, timestamp |-> timestamp,
     display_format |-> "text"]

\* variant: keeps the coarse part of the instant only
isoformat_coarse(t) == ToString(t \div 2)

\* datetime.isoformat(): the textual form of the instant
isoformat(t) == ToString(t)

\* Message.to_dict
to_dict(m) ==
    [role |-> m.role, content |-> m.content, timestamp |-> isoformat(m.timestamp)]

----------------------------------------------------------------------------
(* MainWindow._estimate_tokens *)

\* variant: rounds up
estimate_tokens_ceil(text) == (Len(text) + 2) \div 3

_estimate_tokens(text) == Len(text) \div 3

(* MainWindow._prepare_api_context *)

\* variant: forgets the fixed buffer
safety_margin_no_buffer(max_tokens, prompt) ==
    max_tokens + _estimate_tokens(prompt)

safety_margin(max_tokens, prompt) ==
    max_tokens + _estimate_tokens(prompt) + SAFETY_BUFFER

available_tokens(limit, max_tokens, prompt) ==
    limit - safety_margin(max_tokens, prompt)

\* variant: tests the total before the message is added
fits_before_adding(current_tokens, msg_tokens, available) ==
    current_tokens <= available

\* the test of line 666
fits(current_tokens, msg_tokens, available) ==
    current_tokens + msg_tokens <= available

\* variant: skips a message that does not fit and goes on to older ones
RECURSIVE history_loop_fill_gaps(_, _, _, _, _)
history_loop_fill_gaps(chat, i, current_tokens, final, available) ==
    IF i = 0 THEN [final |-> final, chat |-> chat]
    ELSE LET msg == chat[i]
             msg_tokens == _estimate_tokens(msg.content)
         IN IF fits(current_tokens, msg_tokens, available)
            THEN history_loop_fill_gaps(chat, i - 1, current_tokens + msg_tokens,
                                        <<to_dict(msg)>> \o final, available)
            ELSE history_loop_fill_gaps(chat, i - 1, current_tokens, final, available)

\* variant: takes each included message off the chat list
RECURSIVE history_loop_consuming(_, _, _, _, _)
history_loop_consuming(chat, i, current_tokens, final, available) ==
    IF i = 0 THEN [final |-> final, chat |-> chat]
    ELSE LET msg == chat[i]
             msg_tokens == _estimate_tokens(msg.content)
         IN IF fits(current_tokens, msg_tokens, available)
            THEN history_loop_consuming(SubSeq(chat, 1, i - 1), i - 1,
                                        current_tokens + msg_tokens,
                                        <<to_dict(msg)>> \o final, available)
            ELSE [final |-> final, chat |-> chat]

\* The loop over reversed(self.chat.messages), at list index i, with the
\* chat list threaded through: [final |-> final_messages, chat |-> the list]
RECURSIVE history_loop(_, _, _, _, _)
history_loop(chat, i, current_tokens, final, available) ==
    IF i = 0 THEN [final |-> final, chat |-> chat]
    ELSE LET msg == chat[i]
             msg_tokens == _estimate_tokens(msg.content)
         IN IF fits(current_tokens, msg_tokens, available)
            THEN history_loop(chat, i - 1, current_tokens + msg_tokens,
                              <<to_dict(msg)>> \o final, available)
            ELSE [final |-> final, chat |-> chat]

\* variant: sends the two most recent messages
last_two_only(chat) ==
    [final |-> [i \in 1..(IF Len(chat) < 2 THEN Len(chat) ELSE 2) |->
                    to_dict(chat[Len(chat) - (IF Len(chat) < 2 THEN Len(chat) ELSE 2) + i])],
     chat |-> chat]

\* the else branch: only the most recent message, unbudgeted
last_only(chat) ==
    [final |-> IF chat # <<>> THEN <<to_dict(chat[Len(chat)])>> ELSE <<>>,
     chat |-> chat]

\* variant: inserts the entry even for an empty prompt
prepend_system_always(prompt, final) ==
    <<[role |-> "system", content |-> prompt]>> \o final

\* lines 678-679
prepend_system(prompt, final) ==
    IF prompt # ""
    THEN <<[role |-> "system", content |-> prompt]>> \o final
    ELSE final

\* the whole function: its result and the chat list it leaves behind
_prepare_api_context(chat, prompt, with_history, limit, max_tokens) ==
    LET body == IF with_history
                THEN history_loop(chat, Len(chat), 0, <<>>,
                                  available_tokens(limit, max_tokens, prompt))
                ELSE last_only(chat)
    IN [final |-> prepend_system(prompt, body.final), chat |-> body.chat]

----------------------------------------------------------------------------
(* The budgeter applied to every input of the bounded domains *)

RECURSIVE SeqsUpTo(_, _)
SeqsUpTo(S, n) ==
    IF n = 0 THEN {<<>>}
    ELSE LET shorter == SeqsUpTo(S, n - 1)
         IN shorter \cup {Append(s, x) : s \in {t \in shorter : Len(t) = n - 1}, x \in S}

\* chats whose i-th message was created at tick i
Chats(n) ==
    {[i \in 1..Len(s) |-> Message(s[i][1], s[i][2], i)] :
        s \in SeqsUpTo(Roles \X Texts, n)}

InitBudget ==
    /\ messages \in Chats(MaxMsgs)
    /\ streaming_msg = 0
    /\ system_prompt \in Prompts
    /\ send_context \in BOOLEAN
    /\ context_limit \in ContextLimits
    /\ max_tokens_val \in MaxTokensChoices
    /\ final_messages = <<>>
    /\ current_worker = "None"
    /\ ui_requesting = FALSE
    /\ now = MaxMsgs
    /\ pc = "start"
    /\ streaming = TRUE
    /\ w_pc = "none"
    /\ w_stop = FALSE
    /\ w_stream = TRUE
    /\ w_lines = 0
    /\ signals = <<>>
    /\ file = <<>>
    /\ raised = "None"
    /\ op = ""
    /\ current_assistant_message = ""
    /\ w_waiting = 0
    /\ plugins = <<>>
    /\ hook_calls = <<>>
    /\ chatbot = <<>>
    /\ ch_messages = <<>>
    /\ ch_max_length = 1

PrepareApiContext ==
    /\ pc = "start"
    /\ LET r == _prepare_api_context(messages, system_prompt, send_context,
                                     context_limit, max_tokens_val)
       IN /\ final_messages' = r.final
          /\ messages' = r.chat
    /\ pc' = "done"
    /\ UNCHANGED <<streaming_msg, current_worker, ui_requesting, now>>
    /\ UNCHANGED <<settingsVars, pluginVars, webVars, ioVars, desktopVars>>
    /\ UNCHANGED workerVars
    /\ UNCHANGED historyVars

NextBudget == PrepareApiContext

SpecBudget == InitBudget /\ [][NextBudget]_vars

----------------------------------------------------------------------------
(* ChatHistory (src/src/models.py; desktop_app.py carries the same code) *)

\* contents of the messages added to a ChatHistory
HistoryTexts == {"a", "b"}

\* models.Message: role and content, compared by value
HistoryMessages == [role : Roles, content : HistoryTexts]

\* variant: keeps one message more than max_length
last_max_length_plus_one(msgs, max_length) ==
    SubSeq(msgs, Len(msgs) - max_length, Len(msgs))

\* self.messages[-self.max_length:]
last_max_length(msgs, max_length) ==
    SubSeq(msgs, Len(msgs) - max_length + 1, Len(msgs))

\* x in list
contains(msgs, x) == \E i \in 1..Len(msgs) : msgs[i] = x

\* variant: takes the oldest message off, once per call
trim_history_pop_oldest(msgs, max_length) ==
    IF Len(msgs) > max_length THEN Tail(msgs) ELSE msgs

\* ChatHistory._trim_history
_trim_history(msgs, max_length) ==
    IF Len(msgs) > max_length
    THEN LET has_system == msgs # <<>> /\ msgs[1].role = "system"
             relevant_messages == last_max_length(msgs, max_length)
         IN IF has_system /\ ~contains(relevant_messages, msgs[1])
            THEN <<msgs[1]>> \o relevant_messages
            ELSE relevant_messages
    ELSE msgs

\* ChatHistory.add_message
add_message(msgs, message, max_length) ==
    _trim_history(Append(msgs, message), max_length)

InitHistory ==
    /\ ch_messages = <<>>
    /\ ch_max_length \in 1..MaxCap
    /\ pc = "history"
    /\ messages = <<>>
    /\ streaming_msg = 0
    /\ system_prompt = ""
    /\ send_context = TRUE
    /\ context_limit = DEFAULT_CONTEXT_LIMIT
    /\ max_tokens_val = 256
    /\ streaming = TRUE
    /\ final_messages = <<>>
    /\ current_worker = "None"
    /\ ui_requesting = FALSE
    /\ now = 0
    /\ w_pc = "none"
    /\ w_stop = FALSE
    /\ w_stream = TRUE
    /\ w_lines = 0
    /\ signals = <<>>
    /\ file = <<>>
    /\ raised = "None"
    /\ op = ""
    /\ current_assistant_message = ""
    /\ w_waiting = 0
    /\ plugins = <<>>
    /\ hook_calls = <<>>
    /\ chatbot = <<>>

HistoryAddMessage ==
    /\ pc = "history"
    /\ \E message \in HistoryMessages :
           ch_messages' = add_message(ch_messages, message, ch_max_length)
    /\ UNCHANGED <<ch_max_length, pc>>
    /\ UNCHANGED chatVars
    /\ UNCHANGED <<settingsVars, pluginVars, webVars, ioVars, desktopVars>>
    /\ UNCHANGED workerVars

\* ChatHistory.clear
HistoryClear ==
    /\ pc = "history"
    /\ ch_messages' = <<>>
    /\ UNCHANGED <<ch_max_length, pc>>
    /\ UNCHANGED chatVars
    /\ UNCHANGED <<settingsVars, pluginVars, webVars, ioVars, desktopVars>>
    /\ UNCHANGED workerVars

NextHistory == HistoryAddMessage \/ HistoryClear

SpecHistory == InitHistory /\ [][NextHistory]_vars

----------------------------------------------------------------------------
(* ChatHistory._trim_history applied to every history of the bounded domains *)

InitTrim ==
    /\ ch_messages \in SeqsUpTo(HistoryMessages, MaxHist)
    /\ ch_max_length \in 1..MaxCap
    /\ pc = "trim0"
    /\ messages = <<>>
    /\ streaming_msg = 0
    /\ system_prompt = ""
    /\ send_context = TRUE
    /\ context_limit = DEFAULT_CONTEXT_LIMIT
    /\ max_tokens_val = 256
    /\ streaming = TRUE
    /\ final_messages = <<>>
    /\ current_worker = "None"
    /\ ui_requesting = FALSE
    /\ now = 0
    /\ w_pc = "none"
    /\ w_stop = FALSE
    /\ w_stream = TRUE
    /\ w_lines = 0
    /\ signals = <<>>
    /\ file = <<>>
    /\ raised = "None"
    /\ op = ""
    /\ current_assistant_message = ""
    /\ w_waiting = 0
    /\ plugins = <<>>
    /\ hook_calls = <<>>
    /\ chatbot = <<>>

\* one call of ChatHistory._trim_history; it is called twice in a row
TrimHistory ==
    /\ pc \in {"trim0", "trim1"}
    /\ ch_messages' = _trim_history(ch_messages, ch_max_length)
    /\ pc' = (IF pc = "trim0" THEN "trim1" ELSE "trim2")
    /\ UNCHANGED ch_max_length
    /\ UNCHANGED chatVars
    /\ UNCHANGED <<settingsVars, pluginVars, webVars, ioVars, desktopVars>>
    /\ UNCHANGED workerVars

NextTrim == TrimHistory

SpecTrim == InitTrim /\ [][NextTrim]_vars

----------------------------------------------------------------------------
(* The application: ChatWidget, PluginManager, ApiWorker and MainWindow of   *)
(* src/openchat_with_plugins.py.  The GUI thread runs one handler at a time; *)
(* the worker thread runs make_request and posts its signals to the GUI      *)
(* thread's event queue, which delivers them in the order posted.            *)

HTTP_UNAUTHORIZED == 401
CODE_CANCELLED == -1
CODE_NETWORK == -2
CODE_UNEXPECTED == -3
CODE_PARSE == -4
CODE_EMPTY == 0

CancelMarker == "\n\n[Abgebrochen]"

\* sub in s
Contains(s, sub) ==
    \E i \in 1..(Len(s) - Len(sub) + 1) : SubSeq(s, i, i + Len(sub) - 1) = sub

\* the text shown in place of a failed answer
error_display(code) == "Fehler (Code: " \o ToString(code) \o ")"

\* variant: empties the list and leaves the streaming target as it is
chat_clear_keeps_target == [messages |-> <<>>, streaming |-> streaming_msg]

\* ChatWidget.clear: [messages, streaming]
chat_clear == [messages |-> <<>>, streaming |-> 0]

\* ChatWidget.add_message: [messages, streaming]; a variant makes every
\* added message the streaming target
chat_add_message_always_live(chat, live, role, content, timestamp, as_stream) ==
    [messages |-> Append(chat, Message(role, content, timestamp)),
     streaming |-> Len(chat) + 1]

chat_add_message(chat, live, role, content, timestamp, as_stream) ==
    [messages |-> Append(chat, Message(role, content, timestamp)),
     streaming |-> IF as_stream /\ role = "assistant" THEN Len(chat) + 1 ELSE live]

\* PluginManager.plugins after load_plugins: the plugins of src/plugins that
\* override a hook, in two of the orders in which Path.glob may list their files
PluginOrders ==
    {<<"AutoSavePlugin", "CommandPlugin", "SyntaxHighlightPlugin">>,
     <<"SyntaxHighlightPlugin", "CommandPlugin", "AutoSavePlugin">>}

\* on_user_message of a plugin: CommandPlugin overrides it, the others
\* inherit ChatPlugin.on_user_message; result is "True", "False" or "raise"
on_user_message(plugin, text, chat, live) ==
    IF plugin = "CommandPlugin" /\ text = "/clear"
    THEN [result |-> "True", messages |-> chat_clear.messages,
          streaming |-> chat_clear.streaming]
    ELSE IF plugin = "CommandPlugin" /\ text = "/help"
    THEN [result |-> "True", messages |-> chat, streaming |-> live]
    ELSE [result |-> "False", messages |-> chat, streaming |-> live]

\* one call of a plugin hook and how it ended: what it returned ("True",
\* "False", "None") or "raise"
HookCall(plugin, hook, result) ==
    [plugin |-> plugin, hook |-> hook, result |-> result]

\* the loop of PluginManager.dispatch_user_message from plugin i on; a
\* variant goes on to the plugins after the one that handled the message
RECURSIVE user_message_loop_consult_all(_, _, _, _, _, _, _)
user_message_loop_consult_all(loaded, i, text, chat, live, calls, handled) ==
    IF i > Len(loaded)
    THEN [handled |-> handled, messages |-> chat, streaming |-> live,
          calls |-> calls]
    ELSE LET r == on_user_message(loaded[i], text, chat, live)
         IN user_message_loop_consult_all(loaded, i + 1, text, r.messages,
                r.streaming,
                Append(calls, HookCall(loaded[i], "on_user_message", r.result)),
                handled \/ r.result = "True")

RECURSIVE user_message_loop(_, _, _, _, _, _, _)
user_message_loop(loaded, i, text, chat, live, calls, handled) ==
    IF i > Len(loaded)
    THEN [handled |-> handled, messages |-> chat, streaming |-> live,
          calls |-> calls]
    ELSE LET r == on_user_message(loaded[i], text, chat, live)
             c == Append(calls, HookCall(loaded[i], "on_user_message", r.result))
         IN IF r.result = "True"
            THEN [handled |-> TRUE, messages |-> r.messages,
                  streaming |-> r.streaming, calls |-> c]
            ELSE user_message_loop(loaded, i + 1, text, r.messages,
                                   r.streaming, c, handled)

\* PluginManager.dispatch_user_message: [handled, messages, streaming, calls]
dispatch_user_message(loaded, text, chat, live) ==
    user_message_loop(loaded, 1, text, chat, live, <<>>, FALSE)

\* lines 699-703: what is left of the chat when nothing is to be sent
drop_empty_last(chat) ==
    IF chat # <<>> /\ chat[Len(chat)].content = ""
    THEN SubSeq(chat, 1, Len(chat) - 1)
    ELSE chat

\* line 699: is there a payload to send
has_payload(final) == final # <<>>

InitApp ==
    /\ messages = <<>>
    /\ streaming_msg = 0
    /\ system_prompt \in Prompts
    /\ send_context \in BOOLEAN
    /\ context_limit \in AppContextLimits
    /\ max_tokens_val \in AppMaxTokens
    /\ streaming \in BOOLEAN
    /\ final_messages = <<>>
    /\ current_worker = "None"
    /\ ui_requesting = FALSE
    /\ now = 0
    /\ pc = "app"
    /\ w_pc = "none"
    /\ w_stop = FALSE
    /\ w_stream = TRUE
    /\ w_lines = 0
    /\ signals = <<>>
    /\ file = <<>>
    /\ raised = "None"
    /\ op = ""
    /\ current_assistant_message = ""
    /\ w_waiting = 0
    /\ plugins \in PluginOrders
    /\ hook_calls = <<>>
    /\ chatbot = <<>>
    /\ ch_messages = <<>>
    /\ ch_max_length = 1

\* MainWindow._send; the send button and the input line are enabled
Send ==
    /\ pc = "app"
    /\ ~ui_requesting
    /\ now + 2 <= MaxClock
    /\ \E text \in UserTexts, api_key \in BOOLEAN :
         LET d == dispatch_user_message(plugins, text, messages, streaming_msg)
             with_user == chat_add_message(d.messages, d.streaming, "user",
                                           text, now, FALSE)
             r == _prepare_api_context(with_user.messages, system_prompt,
                                       send_context, context_limit, max_tokens_val)
             placeholder == chat_add_message(r.chat, with_user.streaming,
                                "assistant", "", now + 1, TRUE)
         IN IF text = ""
            THEN /\ hook_calls' = <<>>
                 /\ UNCHANGED <<messages, streaming_msg, final_messages,
                                current_worker, ui_requesting, now, workerVars>>
            ELSE IF d.handled
            THEN /\ messages' = d.messages
                 /\ streaming_msg' = d.streaming
                 /\ hook_calls' = d.calls
                 /\ UNCHANGED <<final_messages, current_worker, ui_requesting,
                                now, workerVars>>
            ELSE IF ~api_key
            THEN /\ messages' = d.messages
                 /\ streaming_msg' = d.streaming
                 /\ hook_calls' = d.calls
                 /\ UNCHANGED <<final_messages, current_worker, ui_requesting,
                                now, workerVars>>
            ELSE IF ~has_payload(r.final)
            THEN /\ messages' = drop_empty_last(r.chat)
                 /\ streaming_msg' = with_user.streaming
                 /\ final_messages' = r.final
                 /\ now' = now + 1
                 /\ hook_calls' = d.calls
                 /\ UNCHANGED <<current_worker, ui_requesting, workerVars>>
            ELSE /\ messages' = placeholder.messages
                 /\ streaming_msg' = placeholder.streaming
                 /\ hook_calls' = d.calls
                 /\ final_messages' = r.final
                 /\ now' = now + 2
                 /\ current_worker' = "worker"
                 /\ w_pc' = "queued"
                 /\ w_stop' = FALSE
                 /\ w_stream' = streaming
                 /\ w_lines' = 0
                 /\ signals' = signals
                 /\ ui_requesting' = TRUE
    /\ UNCHANGED <<pc, settingsVars, plugins, webVars, ioVars, desktopVars, historyVars>>

\* MainWindow._stop_request; the stop button is visible
StopRequest ==
    /\ pc = "app"
    /\ ui_requesting
    /\ w_stop' = (IF current_worker # "None" THEN TRUE ELSE w_stop)
    /\ UNCHANGED <<w_pc, w_stream, w_lines, signals>>
    /\ UNCHANGED <<pc, chatVars, settingsVars, pluginVars, webVars, ioVars, desktopVars, historyVars>>

\* menu "Neuer Chat" / "Chat löschen": ChatWidget.clear; the menu bar is enabled
ClearChat ==
    /\ pc = "app"
    /\ ~ui_requesting
    /\ messages' = chat_clear.messages
    /\ streaming_msg' = chat_clear.streaming
    /\ UNCHANGED <<final_messages, current_worker, ui_requesting, now>>
    /\ UNCHANGED <<pc, settingsVars, pluginVars, webVars, ioVars, desktopVars, workerVars, historyVars>>

emit(sig) == signals' = Append(signals, sig)

\* what a complete answer may read: a fragment, or a text that quotes the
\* word the application uses to mark a cancelled answer
Answers == Fragments \cup {"[Abgebrochen]"}

\* ApiWorker.make_request up to the response: requests.post, raise_for_status
\* and, without streaming, the single answer
WorkerPost ==
    /\ pc = "app"
    /\ w_pc = "queued"
    /\ \/ /\ w_stream
          /\ w_pc' = "lines"
          /\ UNCHANGED signals
       \/ /\ ~w_stream
          /\ \E text \in Answers : emit([sig |-> "response", text |-> text])
          /\ w_pc' = "finally"
       \/ /\ ~w_stream
          /\ emit([sig |-> "error", code |-> CODE_EMPTY])
          /\ w_pc' = "finally"
       \/ /\ \E code \in {HTTP_UNAUTHORIZED, CODE_NETWORK} :
                emit([sig |-> "error", code |-> code])
          /\ w_pc' = "finally"
    /\ UNCHANGED <<w_stop, w_stream, w_lines>>
    /\ UNCHANGED <<pc, chatVars, settingsVars, pluginVars, webVars, ioVars, desktopVars, historyVars>>

\* one iteration of the loop over response.iter_lines(): the worker waits
\* for the next line; the stop flag is read only once a line has arrived
WorkerLine ==
    /\ pc = "app"
    /\ w_pc = "lines"
    /\ \/ /\ w_stop
          /\ w_pc' = "finally"
          /\ UNCHANGED <<signals, w_lines>>
       \/ /\ ~w_stop
          /\ w_lines < MaxChunks
          /\ \E text \in Fragments : emit([sig |-> "chunk", text |-> text])
          /\ w_lines' = w_lines + 1
          /\ UNCHANGED w_pc
       \/ /\ ~w_stop
          /\ \E code \in {CODE_PARSE, CODE_UNEXPECTED} :
                emit([sig |-> "error", code |-> code])
          /\ w_pc' = "finally"
          /\ UNCHANGED w_lines
       \/ /\ w_pc' = "finally"
          /\ UNCHANGED <<signals, w_lines>>
       \/ /\ emit([sig |-> "error", code |-> CODE_NETWORK])
          /\ w_pc' = "finally"
          /\ UNCHANGED w_lines
    /\ UNCHANGED <<w_stop, w_stream>>
    /\ UNCHANGED <<pc, chatVars, settingsVars, pluginVars, webVars, ioVars, desktopVars, historyVars>>

\* the signals the finally clause of make_request emits; a variant emits
\* finished ahead of the cancellation error
finally_signals_finished_first(stop_requested) ==
    <<[sig |-> "finished"]>> \o
    (IF stop_requested
     THEN <<[sig |-> "error", code |-> CODE_CANCELLED]>> ELSE <<>>)

finally_signals(stop_requested) ==
    (IF stop_requested
     THEN <<[sig |-> "error", code |-> CODE_CANCELLED]>> ELSE <<>>)
    \o <<[sig |-> "finished"]>>

\* the finally clause of make_request
WorkerFinally ==
    /\ pc = "app"
    /\ w_pc = "finally"
    /\ signals' = signals \o finally_signals(w_stop)
    /\ w_pc' = "done"
    /\ UNCHANGED <<w_stop, w_stream, w_lines>>
    /\ UNCHANGED <<pc, chatVars, settingsVars, pluginVars, webVars, ioVars, desktopVars, historyVars>>

set_content(chat, i, content) == [chat EXCEPT ![i].content = content]

\* ChatWidget.add_stream_chunk, slot of chunk_ready
AddStreamChunk ==
    /\ pc = "app"
    /\ signals # <<>> /\ Head(signals).sig = "chunk"
    /\ signals' = Tail(signals)
    /\ messages' = (IF streaming_msg # 0
                    THEN set_content(messages, streaming_msg,
                             messages[streaming_msg].content \o Head(signals).text)
                    ELSE messages)
    /\ UNCHANGED <<streaming_msg, final_messages, current_worker, ui_requesting, now>>
    /\ UNCHANGED <<w_pc, w_stop, w_stream, w_lines>>
    /\ UNCHANGED <<pc, settingsVars, pluginVars, webVars, ioVars, desktopVars, historyVars>>

\* MainWindow._handle_response, slot of response_ready
HandleResponse ==
    /\ pc = "app"
    /\ signals # <<>> /\ Head(signals).sig = "response"
    /\ signals' = Tail(signals)
    /\ messages' = (IF streaming_msg # 0
                    THEN set_content(messages, streaming_msg, Head(signals).text)
                    ELSE messages)
    /\ UNCHANGED <<streaming_msg, final_messages, current_worker, ui_requesting, now>>
    /\ UNCHANGED <<w_pc, w_stop, w_stream, w_lines>>
    /\ UNCHANGED <<pc, settingsVars, pluginVars, webVars, ioVars, desktopVars, historyVars>>

\* MainWindow._handle_error, slot of error_occurred
HandleError ==
    /\ pc = "app"
    /\ signals # <<>> /\ Head(signals).sig = "error"
    /\ signals' = Tail(signals)
    /\ LET code == Head(signals).code
       IN IF code = CODE_CANCELLED
          THEN /\ messages' = (IF streaming_msg # 0
                               THEN set_content(messages, streaming_msg,
                                        messages[streaming_msg].content \o CancelMarker)
                               ELSE messages)
               /\ UNCHANGED now
          ELSE IF streaming_msg # 0
          THEN /\ messages' = set_content(messages, streaming_msg, error_display(code))
               /\ UNCHANGED now
          ELSE /\ messages' = chat_add_message(messages, streaming_msg, "assistant",
                                    error_display(code), now, FALSE).messages
               /\ now' = now + 1
    /\ UNCHANGED <<streaming_msg, final_messages, current_worker, ui_requesting>>
    /\ UNCHANGED <<w_pc, w_stop, w_stream, w_lines>>
    /\ UNCHANGED <<pc, settingsVars, pluginVars, webVars, ioVars, desktopVars, historyVars>>

\* the fence of a code block; stands for three backquotes, a character the
\* strings of this module cannot hold
CodeFence == "~~~"

\* SyntaxHighlightPlugin.on_api_response, the only plugin hook that changes
\* the message: a fenced code block turns the content into rendered markup
HasCodeBlock(content) ==
    \E i \in 1..Len(content), j \in 1..Len(content), k \in 1..Len(content) :
        /\ i + 3 <= j
        /\ SubSeq(content, i, i + 2) = CodeFence
        /\ SubSeq(content, j, j) = "\n"
        /\ ~Contains(SubSeq(content, i + 3, j - 1), "\n")
        /\ j < k
        /\ k + 2 <= Len(content)
        /\ SubSeq(content, k, k + 2) = CodeFence

\* on_api_response of a plugin: [raised, message].  SyntaxHighlightPlugin
\* rewrites a message that holds a code block; AutoSavePlugin applies "in"
\* to the Message object, which raises TypeError; the others inherit
\* ChatPlugin.on_api_response
on_api_response(plugin, m) ==
    IF plugin = "SyntaxHighlightPlugin" /\ HasCodeBlock(m.content)
    THEN [raised |-> FALSE,
          message |-> [m EXCEPT
             !.content = "<div class=\"highlight\">" \o m.content \o "</div>",
             !.display_format = "html"]]
    ELSE IF plugin = "AutoSavePlugin"
    THEN [raised |-> TRUE, message |-> m]
    ELSE [raised |-> FALSE, message |-> m]

\* the loop of PluginManager.dispatch_api_response from plugin i on; a
\* variant gives up at the first plugin whose hook raises
RECURSIVE api_response_loop_stop_on_raise(_, _, _, _)
api_response_loop_stop_on_raise(loaded, i, m, calls) ==
    IF i > Len(loaded)
    THEN [message |-> m, calls |-> calls]
    ELSE LET r == on_api_response(loaded[i], m)
             c == Append(calls, HookCall(loaded[i], "on_api_response",
                                         IF r.raised THEN "raise" ELSE "None"))
         IN IF r.raised
            THEN [message |-> r.message, calls |-> c]
            ELSE api_response_loop_stop_on_raise(loaded, i + 1, r.message, c)

RECURSIVE api_response_loop(_, _, _, _)
api_response_loop(loaded, i, m, calls) ==
    IF i > Len(loaded)
    THEN [message |-> m, calls |-> calls]
    ELSE LET r == on_api_response(loaded[i], m)
         IN api_response_loop(loaded, i + 1, r.message,
                Append(calls, HookCall(loaded[i], "on_api_response",
                                       IF r.raised THEN "raise" ELSE "None")))

\* PluginManager.dispatch_api_response: [message, calls]
dispatch_api_response(loaded, m) == api_response_loop(loaded, 1, m, <<>>)

\* MainWindow._on_worker_finish, slot of finished
OnWorkerFinish ==
    /\ pc = "app"
    /\ signals # <<>> /\ Head(signals).sig = "finished"
    /\ signals' = Tail(signals)
    /\ IF /\ streaming_msg # 0
          /\ ~Contains(messages[streaming_msg].content, "[Abgebrochen]")
          /\ ~Contains(messages[streaming_msg].content, "Fehler (Code:")
       THEN LET d == dispatch_api_response(plugins, messages[streaming_msg])
            IN /\ messages' = [messages EXCEPT ![streaming_msg] = d.message]
               /\ hook_calls' = d.calls
       ELSE /\ messages' = messages
            /\ hook_calls' = <<>>
    /\ streaming_msg' = 0
    /\ ui_requesting' = FALSE
    /\ current_worker' = "None"
    /\ w_pc' = "none"
    /\ UNCHANGED <<final_messages, now>>
    /\ UNCHANGED <<w_stop, w_stream, w_lines>>
    /\ UNCHANGED <<pc, settingsVars, plugins, webVars, ioVars, desktopVars, historyVars>>

Next ==
    \/ Send
    \/ StopRequest
    \/ ClearChat
    \/ WorkerPost
    \/ WorkerLine
    \/ WorkerFinally
    \/ AddStreamChunk
    \/ HandleResponse
    \/ HandleError
    \/ OnWorkerFinish

Init == InitApp

Spec == Init /\ [][Next]_vars

\* The same application under the scheduling it runs with: the worker thread
\* runs make_request to its end (the request has a timeout and a stream ends)
\* and the event loop of the GUI thread delivers every queued signal.  Runs
\* start with the context sent, no system prompt and the larger model.
InitLive ==
    /\ InitApp
    /\ system_prompt = ""
    /\ send_context
    /\ context_limit = 759

SpecLive ==
    /\ InitLive
    /\ [][Next]_vars
    /\ WF_vars(WorkerPost)
    /\ WF_vars(WorkerLine)
    /\ WF_vars(WorkerFinally)
    /\ WF_vars(AddStreamChunk)
    /\ WF_vars(HandleResponse)
    /\ WF_vars(HandleError)
    /\ WF_vars(OnWorkerFinish)

----------------------------------------------------------------------------
(* Export and import of the conversation: ChatWidget of                     *)
(* src/openchat_with_plugins.py and ChatHistory of src/desktop_app.py,      *)
(* each driven through its public methods in any order.                     *)

Digits == <<"0", "1", "2", "3", "4", "5", "6", "7", "8", "9">>

IsDigit(c) == \E d \in 1..10 : Digits[d] = c

DigitValue(c) == (CHOOSE d \in 1..10 : Digits[d] = c) - 1

\* the number a text of decimal digits denotes
RECURSIVE parse_digits(_)
parse_digits(s) ==
    IF Len(s) = 0 THEN 0
    ELSE parse_digits(SubSeq(s, 1, Len(s) - 1)) * 10
           + DigitValue(SubSeq(s, Len(s), Len(s)))

\* datetime.fromisoformat: the instant a text denotes, or ValueError
fromisoformat(s) ==
    IF Len(s) > 0 /\ \A i \in 1..Len(s) : IsDigit(SubSeq(s, i, i))
    THEN [raised |-> "None", value |-> parse_digits(s)]
    ELSE [raised |-> "ValueError", value |-> 0]

\* export_history of both clients: [m.to_dict() for m in self.messages]
export_history(chat) == [i \in 1..Len(chat) |-> to_dict(chat[i])]

\* what building a Message from the record d raises in
\* ChatWidget.import_history: d["role"], d["content"],
\* datetime.fromisoformat(d.get("timestamp"))
record_error(d) ==
    IF "role" \notin DOMAIN d THEN "KeyError"
    ELSE IF "content" \notin DOMAIN d THEN "KeyError"
    ELSE IF "timestamp" \notin DOMAIN d THEN "TypeError"
    ELSE fromisoformat(d.timestamp).raised

\* the messages built from records that raise nothing
built(data) ==
    [i \in 1..Len(data) |->
        Message(data[i].role, data[i].content, fromisoformat(data[i].timestamp).value)]

\* variant: keeps the records read before the first invalid one
import_history_partial(data) ==
    LET bad == {i \in 1..Len(data) : record_error(data[i]) # "None"}
        first == CHOOSE i \in bad : \A j \in bad : i <= j
    IN IF bad = {}
       THEN [messages |-> built(data), streaming |-> chat_clear.streaming,
             raised |-> "None"]
       ELSE [messages |-> built(SubSeq(data, 1, first - 1)),
             streaming |-> chat_clear.streaming, raised |-> "ValueError"]

\* ChatWidget.import_history: clear(), the list built in one expression,
\* and on KeyError, TypeError or ValueError clear() again and ValueError
import_history(data) ==
    IF \A i \in 1..Len(data) : record_error(data[i]) = "None"
    THEN [messages |-> built(data), streaming |-> chat_clear.streaming,
          raised |-> "None"]
    ELSE [messages |-> chat_clear.messages, streaming |-> chat_clear.streaming,
          raised |-> "ValueError"]

\* what desktop_app Message.from_dict raises for the record d: the keys are
\* read in the order role, content, timestamp, then pydantic checks the role
from_dict_error(d) ==
    IF ~({"role", "content", "timestamp"} \subseteq DOMAIN d) THEN "KeyError"
    ELSE IF fromisoformat(d.timestamp).raised # "None" THEN "ValueError"
    ELSE IF d.role \notin Roles THEN "ValidationError"
    ELSE "None"

\* desktop_app ChatHistory.import_history: the list is assigned only once
\* every record has been converted
ChatHistory_import_history(msgs, data) ==
    LET bad == {i \in 1..Len(data) : from_dict_error(data[i]) # "None"}
    IN IF bad = {}
       THEN [messages |-> built(data), raised |-> "None"]
       ELSE [messages |-> msgs,
             raised |-> from_dict_error(data[CHOOSE i \in bad : \A j \in bad : i <= j])]

\* records a file handed to import_history can hold
WellFormed1 == [role |-> "user", content |-> "hi", timestamp |-> "1"]
WellFormed2 == [role |-> "assistant", content |-> "", timestamp |-> "12"]
NoRole == [content |-> "hi", timestamp |-> "1"]
NoContent == [role |-> "user", timestamp |-> "1"]
NoTimestamp == [role |-> "user", content |-> "hi"]
BadTimestamp == [role |-> "user", content |-> "hi", timestamp |-> "gestern"]
BadRole == [role |-> "tool", content |-> "hi", timestamp |-> "1"]

\* the files tried: empty, well-formed, and well-formed records before or
\* after one that is not
ImportData ==
    { <<>>, <<WellFormed1>>, <<WellFormed2, WellFormed1>>,
      <<NoRole>>, <<WellFormed1, NoRole>>, <<NoContent, WellFormed1>>,
      <<WellFormed2, NoTimestamp>>, <<WellFormed1, BadTimestamp>>,
      <<BadRole>>, <<BadRole, NoContent>> }

\* roles and contents of the messages added to a store
StoreRoles == {"user", "assistant"}
StoreTexts == {"hi"}

InitStore ==
    /\ pc \in {"widget", "chathistory"}
    /\ messages = <<>>
    /\ streaming_msg = 0
    /\ ch_messages = <<>>
    /\ ch_max_length \in (IF pc = "widget" THEN {1} ELSE 1..MaxCap)
    /\ system_prompt = ""
    /\ send_context = TRUE
    /\ context_limit = DEFAULT_CONTEXT_LIMIT
    /\ max_tokens_val = 256
    /\ streaming = TRUE
    /\ final_messages = <<>>
    /\ current_worker = "None"
    /\ ui_requesting = FALSE
    /\ now = 0
    /\ w_pc = "none"
    /\ w_stop = FALSE
    /\ w_stream = TRUE
    /\ w_lines = 0
    /\ signals = <<>>
    /\ file = <<>>
    /\ raised = "None"
    /\ op = ""
    /\ current_assistant_message = ""
    /\ w_waiting = 0
    /\ plugins = <<>>
    /\ hook_calls = <<>>
    /\ chatbot = <<>>

storeFrame ==
    /\ UNCHANGED <<pc, final_messages, current_worker, ui_requesting>>
    /\ UNCHANGED <<w_pc, w_stop, w_stream, signals>>
    /\ UNCHANGED <<settingsVars, pluginVars, webVars, desktopVars, ch_max_length>>

\* ChatWidget.add_message
WidgetAddMessage ==
    /\ pc = "widget"
    /\ now < MaxStore
    /\ \E role \in StoreRoles, content \in StoreTexts, as_stream \in BOOLEAN :
          LET a == chat_add_message(messages, streaming_msg, role, content,
                                    now, as_stream)
          IN /\ messages' = a.messages
             /\ streaming_msg' = a.streaming
    /\ now' = now + 1
    /\ op' = "add_message"
    /\ raised' = "None"
    /\ UNCHANGED <<file, ch_messages, w_lines>>
    /\ storeFrame

\* ChatWidget.add_stream_chunk
WidgetAddStreamChunk ==
    /\ pc = "widget"
    /\ w_lines < MaxChunks
    /\ w_lines' = w_lines + 1
    /\ \E chunk \in Fragments :
          messages' = (IF streaming_msg # 0
                       THEN set_content(messages, streaming_msg,
                                messages[streaming_msg].content \o chunk)
                       ELSE messages)
    /\ op' = "add_stream_chunk"
    /\ raised' = "None"
    /\ UNCHANGED <<streaming_msg, now, file, ch_messages>>
    /\ storeFrame

\* ChatWidget.end_stream
WidgetEndStream ==
    /\ pc = "widget"
    /\ streaming_msg' = 0
    /\ op' = "end_stream"
    /\ raised' = "None"
    /\ UNCHANGED <<messages, now, file, ch_messages>>
    /\ UNCHANGED w_lines
    /\ storeFrame

\* ChatWidget.clear
WidgetClear ==
    /\ pc = "widget"
    /\ messages' = chat_clear.messages
    /\ streaming_msg' = chat_clear.streaming
    /\ op' = "clear"
    /\ raised' = "None"
    /\ UNCHANGED <<now, file, ch_messages>>
    /\ UNCHANGED w_lines
    /\ storeFrame

\* ChatWidget.import_history, of what export_history returns or of a file
WidgetImportHistory ==
    /\ pc = "widget"
    /\ \E data \in ImportData \cup {export_history(messages)} :
          LET r == import_history(data)
          IN /\ messages' = r.messages
             /\ streaming_msg' = r.streaming
             /\ raised' = r.raised
             /\ file' = data
    /\ op' = "import_history"
    /\ UNCHANGED <<now, ch_messages>>
    /\ UNCHANGED w_lines
    /\ storeFrame

\* desktop_app ChatHistory.add_message
ChatHistoryAddMessage ==
    /\ pc = "chathistory"
    /\ now < MaxStore
    /\ \E role \in Roles, content \in StoreTexts :
          ch_messages' = add_message(ch_messages, Message(role, content, now),
                                     ch_max_length)
    /\ now' = now + 1
    /\ op' = "add_message"
    /\ raised' = "None"
    /\ UNCHANGED <<messages, streaming_msg, file>>
    /\ UNCHANGED w_lines
    /\ storeFrame

\* desktop_app ChatHistory.clear
ChatHistoryClear ==
    /\ pc = "chathistory"
    /\ ch_messages' = <<>>
    /\ op' = "clear"
    /\ raised' = "None"
    /\ UNCHANGED <<messages, streaming_msg, now, file>>
    /\ UNCHANGED w_lines
    /\ storeFrame

\* desktop_app ChatHistory.import_history
ChatHistoryImportHistory ==
    /\ pc = "chathistory"
    /\ \E data \in ImportData \cup {export_history(ch_messages)} :
          LET r == ChatHistory_import_history(ch_messages, data)
          IN /\ ch_messages' = r.messages
             /\ raised' = r.raised
             /\ file' = data
    /\ op' = "import_history"
    /\ UNCHANGED <<messages, streaming_msg, now>>
    /\ UNCHANGED w_lines
    /\ storeFrame

NextStore ==
    \/ WidgetAddMessage
    \/ WidgetAddStreamChunk
    \/ WidgetEndStream
    \/ WidgetClear
    \/ WidgetImportHistory
    \/ ChatHistoryAddMessage
    \/ ChatHistoryClear
    \/ ChatHistoryImportHistory

SpecStore == InitStore /\ [][NextStore]_vars

----------------------------------------------------------------------------
(* The application of src/desktop_app.py: MainWindow, ApiWorker and the      *)
(* module-wide api_client.  Its history is ch_messages with ch_max_length,   *)
(* the stop flag w_stop is api_client.stop_requested, shared by all          *)
(* requests; make_request calls run one after the other on the API thread.   *)

DEFAULT_MAX_LENGTH == 20   \* ChatHistory() as MainWindow creates it
HTTP_INTERNAL == 500       \* the status given to a failure that is no HTTP status

\* what the user can type, after strip(); "" is the blank input
DesktopUserTexts == {"", "hi"}

\* text fragments the completion endpoint can stream
DesktopFragments == {"Hel", " "}

Whitespace == {" ", "\n", "\t"}

\* str.strip()
RECURSIVE strip(_)
strip(s) ==
    IF Len(s) = 0 THEN s
    ELSE IF SubSeq(s, 1, 1) \in Whitespace THEN strip(SubSeq(s, 2, Len(s)))
    ELSE IF SubSeq(s, Len(s), Len(s)) \in Whitespace
    THEN strip(SubSeq(s, 1, Len(s) - 1))
    ELSE s

\* ChatHistory.get_history_for_api
get_history_for_api(msgs) ==
    [i \in 1..Len(msgs) |-> [role |-> msgs[i].role, content |-> msgs[i].content]]

InitDesktop ==
    /\ pc = "desktop"
    /\ ch_messages = <<>>
    /\ ch_max_length = DEFAULT_MAX_LENGTH
    /\ current_worker = "None"
    /\ current_assistant_message = ""
    /\ ui_requesting = FALSE
    /\ now = 0
    /\ w_pc = "none"
    /\ w_stop = FALSE
    /\ w_lines = 0
    /\ w_waiting = 0
    /\ plugins = <<>>
    /\ hook_calls = <<>>
    /\ chatbot = <<>>
    /\ signals = <<>>
    /\ final_messages = <<>>
    /\ messages = <<>>
    /\ streaming_msg = 0
    /\ system_prompt = ""
    /\ send_context = TRUE
    /\ context_limit = DEFAULT_CONTEXT_LIMIT
    /\ max_tokens_val = 256
    /\ streaming = TRUE
    /\ w_stream = TRUE
    /\ file = <<>>
    /\ raised = "None"
    /\ op = ""

desktopFrame ==
    UNCHANGED <<pc, messages, streaming_msg, settingsVars, pluginVars, webVars, w_stream,
                file, op, ch_max_length>>

\* MainWindow._send; the send button and the input field are enabled
DesktopSend ==
    /\ pc = "desktop"
    /\ ~ui_requesting
    /\ now + 2 <= MaxClock
    /\ \E user_text \in DesktopUserTexts :
          IF user_text = ""
          THEN UNCHANGED <<ch_messages, ui_requesting, now, final_messages,
                           current_worker, current_assistant_message, w_waiting>>
          ELSE LET history == add_message(ch_messages,
                                          Message("user", user_text, now),
                                          ch_max_length)
               IN /\ ui_requesting' = TRUE
                  /\ ch_messages' = history
                  /\ now' = now + 1
                  /\ final_messages' = get_history_for_api(history)
                  /\ current_worker' = "worker"
                  /\ current_assistant_message' = ""
                  /\ w_waiting' = w_waiting + 1
    /\ UNCHANGED <<w_pc, w_stop, w_lines, signals>>
    /\ UNCHANGED raised
    /\ desktopFrame

\* MainWindow._stop_request; the stop button is visible
DesktopStopRequest ==
    /\ pc = "desktop"
    /\ ui_requesting
    /\ w_stop' = (IF current_worker # "None" THEN TRUE ELSE w_stop)
    /\ UNCHANGED <<ch_messages, ui_requesting, now, final_messages,
                   current_worker, current_assistant_message, w_waiting,
                   w_pc, w_lines, signals>>
    /\ UNCHANGED raised
    /\ desktopFrame

\* MainWindow.clear_chat; the menu bar is enabled
DesktopClearChat ==
    /\ pc = "desktop"
    /\ ~ui_requesting
    /\ ch_messages' = <<>>
    /\ UNCHANGED <<ui_requesting, now, final_messages, current_worker,
                   current_assistant_message, w_waiting, w_pc, w_stop, w_lines,
                   signals>>
    /\ UNCHANGED raised
    /\ desktopFrame

\* ApiWorker.make_request begins on the API thread, once the call before it
\* has returned: the shared stop flag is reset
DesktopWorkerStart ==
    /\ pc = "desktop"
    /\ w_pc \in {"none", "done"}
    /\ w_waiting > 0
    /\ w_waiting' = w_waiting - 1
    /\ w_stop' = FALSE
    /\ w_lines' = 0
    /\ w_pc' = "connect"
    /\ raised' = "None"
    /\ UNCHANGED <<ch_messages, ui_requesting, now, final_messages,
                   current_worker, current_assistant_message, signals>>
    /\ desktopFrame

\* send_message_stream up to the first line: httpx.stream and
\* raise_for_status; a failure reaches make_request as APIClientError
DesktopWorkerConnect ==
    /\ pc = "desktop"
    /\ w_pc = "connect"
    /\ \/ /\ w_pc' = "lines"
          /\ UNCHANGED signals
       \/ /\ \E code \in {HTTP_UNAUTHORIZED, HTTP_INTERNAL} :
                emit([sig |-> "error", code |-> code])
          /\ w_pc' = "finally"
    /\ UNCHANGED <<ch_messages, ui_requesting, now, final_messages,
                   current_worker, current_assistant_message, w_waiting,
                   w_stop, w_lines>>
    /\ UNCHANGED raised
    /\ desktopFrame

\* one iteration of the loop over response.iter_lines() and of the loop of
\* make_request that forwards what it yields: the stop flag is seen, a
\* fragment is forwarded, a payload that is not JSON raises JSONDecodeError
\* and the loop goes on to the next line, the stream ends, or the transport
\* fails
DesktopWorkerLine ==
    /\ pc = "desktop"
    /\ w_pc = "lines"
    /\ \/ /\ w_stop
          /\ w_pc' = "finally"
          /\ UNCHANGED <<signals, w_lines, raised>>
       \/ /\ ~w_stop
          /\ w_lines < MaxChunks
          /\ \E text \in DesktopFragments : emit([sig |-> "chunk", text |-> text])
          /\ w_lines' = w_lines + 1
          /\ UNCHANGED <<w_pc, raised>>
       \/ /\ ~w_stop
          /\ raised' = "JSONDecodeError"
          /\ UNCHANGED <<signals, w_lines, w_pc>>
       \/ /\ w_pc' = "finally"
          /\ UNCHANGED <<signals, w_lines, raised>>
       \/ /\ emit([sig |-> "error", code |-> HTTP_INTERNAL])
          /\ w_pc' = "finally"
          /\ UNCHANGED <<w_lines, raised>>
    /\ UNCHANGED <<ch_messages, ui_requesting, now, final_messages,
                   current_worker, current_assistant_message, w_waiting, w_stop>>
    /\ desktopFrame

\* the finally clause of make_request
DesktopWorkerFinally ==
    /\ pc = "desktop"
    /\ w_pc = "finally"
    /\ emit([sig |-> "finished"])
    /\ w_pc' = "done"
    /\ UNCHANGED <<ch_messages, ui_requesting, now, final_messages,
                   current_worker, current_assistant_message, w_waiting,
                   w_stop, w_lines>>
    /\ UNCHANGED raised
    /\ desktopFrame

\* MainWindow._handle_chunk, slot of chunk_ready
DesktopHandleChunk ==
    /\ pc = "desktop"
    /\ signals # <<>> /\ Head(signals).sig = "chunk"
    /\ signals' = Tail(signals)
    /\ current_assistant_message' = current_assistant_message \o Head(signals).text
    /\ UNCHANGED <<ch_messages, ui_requesting, now, final_messages,
                   current_worker, w_waiting, w_pc, w_stop, w_lines>>
    /\ UNCHANGED raised
    /\ desktopFrame

\* lines 285-286: the last message goes if it is an empty assistant message
pop_empty_assistant(msgs) ==
    IF /\ msgs # <<>>
       /\ msgs[Len(msgs)].role = "assistant"
       /\ msgs[Len(msgs)].content = ""
    THEN SubSeq(msgs, 1, Len(msgs) - 1)
    ELSE msgs

\* MainWindow._handle_error, slot of error_occurred
DesktopHandleError ==
    /\ pc = "desktop"
    /\ signals # <<>> /\ Head(signals).sig = "error"
    /\ signals' = Tail(signals)
    /\ ui_requesting' = FALSE
    /\ ch_messages' = pop_empty_assistant(ch_messages)
    /\ UNCHANGED <<now, final_messages, current_worker,
                   current_assistant_message, w_waiting, w_pc, w_stop, w_lines>>
    /\ UNCHANGED raised
    /\ desktopFrame

\* MainWindow._on_worker_finish, slot of finished
DesktopOnWorkerFinish ==
    /\ pc = "desktop"
    /\ signals # <<>> /\ Head(signals).sig = "finished"
    /\ signals' = Tail(signals)
    /\ ch_messages' = add_message(ch_messages,
                          Message("assistant", strip(current_assistant_message), now),
                          ch_max_length)
    /\ now' = now + 1
    /\ ui_requesting' = FALSE
    /\ current_worker' = "None"
    /\ UNCHANGED <<final_messages, current_assistant_message, w_waiting, w_pc,
                   w_stop, w_lines>>
    /\ UNCHANGED raised
    /\ desktopFrame

NextDesktop ==
    \/ DesktopSend
    \/ DesktopStopRequest
    \/ DesktopClearChat
    \/ DesktopWorkerStart
    \/ DesktopWorkerConnect
    \/ DesktopWorkerLine
    \/ DesktopWorkerFinally
    \/ DesktopHandleChunk
    \/ DesktopHandleError
    \/ DesktopOnWorkerFinish

SpecDesktop == InitDesktop /\ [][NextDesktop]_vars

----------------------------------------------------------------------------
(* The web client: handle_chat_interaction and clear_chat of src/main_app.py *)
(* over the ChatHistory of src/src/models.py.  The API is the environment:   *)
(* it answers a request with a text, with nothing, or the client raises      *)
(* APIClientError.                                                           *)

MaxCalls == 3        \* calls of handle_chat_interaction per run

WebTexts == {"q1", "q2"}

\* config.system_prompt
WebPrompts == {"", "Be terse"}

\* the text the API generates for a request whose last message is text
Answer(text) == "re: " \o text

Apology == "Entschuldigung, ich konnte keine Antwort generieren."

\* models.Message
WebMessage(role, content) == [role |-> role, content |-> content]

\* [msg for msg in chat_history.messages if msg.role == role]
RECURSIVE with_role(_, _)
with_role(msgs, role) ==
    IF msgs = <<>> THEN <<>>
    ELSE (IF Head(msgs).role = role THEN <<Head(msgs)>> ELSE <<>>)
         \o with_role(Tail(msgs), role)

Min(a, b) == IF a <= b THEN a ELSE b

\* lines 44-49: zip of the user messages and the assistant messages
updated_history(msgs) ==
    LET user_msgs == with_role(msgs, "user")
        assistant_msgs == with_role(msgs, "assistant")
    IN [i \in 1..Min(Len(user_msgs), Len(assistant_msgs)) |->
           <<user_msgs[i].content, assistant_msgs[i].content>>]

\* lines 55-56: the pair shown for a failed call
error_pair(user_input) ==
    <<user_input, "**Fehler bei der API-Anfrage:**\n" \o "API-Fehler">>

\* module level, lines 18 and 73-75
InitWeb ==
    /\ pc = "web"
    /\ system_prompt \in WebPrompts
    /\ ch_messages = (IF system_prompt # ""
                      THEN <<WebMessage("system", system_prompt)>> ELSE <<>>)
    /\ ch_max_length = DEFAULT_MAX_LENGTH
    /\ chatbot = <<>>
    /\ now = 0
    /\ raised = "None"
    /\ op = ""
    /\ file = <<>>
    /\ messages = <<>>
    /\ streaming_msg = 0
    /\ send_context = TRUE
    /\ context_limit = DEFAULT_CONTEXT_LIMIT
    /\ max_tokens_val = 256
    /\ streaming = FALSE
    /\ final_messages = <<>>
    /\ current_worker = "None"
    /\ ui_requesting = FALSE
    /\ w_pc = "none"
    /\ w_stop = FALSE
    /\ w_stream = TRUE
    /\ w_lines = 0
    /\ signals = <<>>
    /\ current_assistant_message = ""
    /\ w_waiting = 0
    /\ plugins = <<>>
    /\ hook_calls = <<>>

webFrame ==
    /\ UNCHANGED <<pc, messages, streaming_msg, final_messages, current_worker,
                   ui_requesting, file, ch_max_length>>
    /\ UNCHANGED <<settingsVars, pluginVars, workerVars, desktopVars>>

\* handle_chat_interaction: the API answers (with a text or with nothing) or
\* the client raises APIClientError
HandleChatInteraction ==
    /\ pc = "web"
    /\ now < MaxCalls
    /\ \E user_input \in WebTexts, outcome \in {"text", "nothing", "APIClientError"} :
          LET with_user == add_message(ch_messages, WebMessage("user", user_input),
                                       ch_max_length)
              assistant_response == IF outcome = "text" THEN Answer(user_input)
                                    ELSE Apology
              with_both == add_message(with_user,
                               WebMessage("assistant", assistant_response),
                               ch_max_length)
          IN IF outcome = "APIClientError"
             THEN /\ ch_messages' = with_user
                  /\ chatbot' = Append(chatbot, error_pair(user_input))
                  /\ raised' = "APIClientError"
             ELSE /\ ch_messages' = with_both
                  /\ chatbot' = updated_history(with_both)
                  /\ raised' = "None"
    /\ op' = "handle_chat_interaction"
    /\ now' = now + 1
    /\ webFrame

\* clear_chat
WebClearChat ==
    /\ pc = "web"
    /\ ch_messages' = (IF system_prompt # ""
                       THEN add_message(<<>>, WebMessage("system", system_prompt),
                                        ch_max_length)
                       ELSE <<>>)
    /\ chatbot' = <<>>
    /\ op' = "clear_chat"
    /\ raised' = "None"
    /\ UNCHANGED now
    /\ webFrame

NextWeb == HandleChatInteraction \/ WebClearChat

SpecWeb == InitWeb /\ [][NextWeb]_vars

----------------------------------------------------------------------------
(* Vocabulary of the properties of the budgeter *)

\* number of entries the system prompt contributes
SystemEntries == IF system_prompt # "" THEN 1 ELSE 0

\* the entries of the result that follow the system prompt entry
ReturnedHistory ==
    SubSeq(final_messages, SystemEntries + 1, Len(final_messages))

\* the budget left for the history, written out
Available ==
    context_limit - (max_tokens_val + _estimate_tokens(system_prompt) + 500)

RECURSIVE SumEst(_)
SumEst(entries) ==
    IF entries = <<>> THEN 0
    ELSE _estimate_tokens(Head(entries).content) + SumEst(Tail(entries))

\* the k most recent messages of the chat
LastK(k) == SubSeq(messages, Len(messages) - k + 1, Len(messages))

Budgeted == pc = "done" /\ send_context

\* C1: with history inclusion on and at least one history message returned,
\* the estimated tokens of all returned entries sum to at most
\* context_limit - max_tokens, and those of the history entries alone to at
\* most available = context_limit - (max_tokens + estimate(prompt) + 500).
C1_BudgetRespected ==
    (Budgeted /\ ReturnedHistory # <<>>) =>
        /\ SumEst(final_messages) <= context_limit - max_tokens_val
        /\ SumEst(ReturnedHistory) <= Available

\* several messages returned after a non-empty prompt, the budget used up
C1_Witness ==
    /\ Budgeted
    /\ system_prompt # ""
    /\ Len(ReturnedHistory) >= 2
    /\ SumEst(ReturnedHistory) = Available
    /\ Available > 0

\* C2: the returned history is the longest suffix of the chat, in the chat's
\* order, whose estimated total stays within available; the walk stops at
\* the first message that does not fit, so nothing older is returned.
C2_GreedySuffix ==
    Budgeted =>
        \E k \in 0..Len(messages) :
            /\ ReturnedHistory = [i \in 1..k |-> to_dict(LastK(k)[i])]
            /\ k > 0 => SumEst(LastK(k)) <= Available
            /\ k < Len(messages) => SumEst(LastK(k + 1)) > Available

\* a message is rejected although an older one would still have fitted
C2_Witness ==
    /\ Budgeted
    /\ ReturnedHistory # <<>>
    /\ Len(ReturnedHistory) + 2 <= Len(messages)
    /\ SumEst(ReturnedHistory) + _estimate_tokens(messages[1].content) <= Available

\* C3 as stated: whenever available <= 0, zero included, no history message
\* is returned.
C3_Original ==
    (Budgeted /\ Available <= 0) => ReturnedHistory = <<>>

\* C3 as amended: whenever available < 0 no history message is returned;
\* when available is exactly 0 only messages estimated at 0 tokens (fewer
\* than 3 characters) are returned.
C3_NothingBelowZero ==
    /\ (Budgeted /\ Available < 0) => ReturnedHistory = <<>>
    /\ (Budgeted /\ Available = 0) =>
           \A i \in 1..Len(ReturnedHistory) : Len(ReturnedHistory[i].content) < 3

\* a short newest message is turned away by a negative budget
C3_Witness ==
    /\ Budgeted
    /\ Available < 0
    /\ messages # <<>>
    /\ Len(messages[Len(messages)].content) < 3
    /\ ReturnedHistory = <<>>

RECURSIVE SumCeil(_)
SumCeil(entries) ==
    IF entries = <<>> THEN 0
    ELSE (Len(Head(entries).content) + 2) \div 3 + SumCeil(Tail(entries))

RECURSIVE SumFloor(_)
SumFloor(entries) ==
    IF entries = <<>> THEN 0
    ELSE Len(Head(entries).content) \div 3 + SumFloor(Tail(entries))

\* C4 as stated: the budget is computed with ceil(length / 3) for every
\* history message and for the system prompt: the returned history is the
\* longest suffix whose ceil-estimates fit the budget left by the
\* ceil-estimate of the prompt.
C4_Original ==
    Budgeted =>
        LET k == Len(ReturnedHistory)
            avail == context_limit
                       - (max_tokens_val + (Len(system_prompt) + 2) \div 3 + 500)
        IN /\ k > 0 => SumCeil(LastK(k)) <= avail
           /\ k < Len(messages) => SumCeil(LastK(k + 1)) > avail

\* C4 as amended: the estimate is floor(length / 3), so a text of fewer than
\* 3 characters costs 0 and one of length 3k+1 or 3k+2 costs k; the budget
\* is computed with it for every history message and for the system prompt.
C4_FloorEstimate ==
    Budgeted =>
        LET k == Len(ReturnedHistory)
            avail == context_limit
                       - (max_tokens_val + Len(system_prompt) \div 3 + 500)
        IN /\ k > 0 => SumFloor(LastK(k)) <= avail
           /\ k < Len(messages) => SumFloor(LastK(k + 1)) > avail

\* a returned history that fits by floor and would not fit by ceil
C4_Witness ==
    /\ Budgeted
    /\ ReturnedHistory # <<>>
    /\ SumFloor(ReturnedHistory) <= Available
    /\ SumCeil(ReturnedHistory) > Available

\* C6 as stated: every entry of the result carries exactly the fields role
\* and content.
C6_Original ==
    pc = "done" =>
        \A i \in 1..Len(final_messages) :
            DOMAIN final_messages[i] = {"role", "content"}

\* C7: without history inclusion the result is the system prompt entry (if
\* the prompt is non-empty) followed by the most recent message alone,
\* whatever its size: at most 2 entries, and no message for an empty chat.
C7_LastMessageOnly ==
    (pc = "done" /\ ~send_context) =>
        /\ Len(final_messages) <= 2
        /\ final_messages =
              (IF system_prompt # ""
               THEN <<[role |-> "system", content |-> system_prompt]>> ELSE <<>>)
              \o (IF messages = <<>> THEN <<>>
                  ELSE <<to_dict(messages[Len(messages)])>>)

\* the single message returned is larger than the budget, older ones exist
C7_Witness ==
    /\ pc = "done" /\ ~send_context
    /\ system_prompt # ""
    /\ Len(messages) >= 2
    /\ _estimate_tokens(messages[Len(messages)].content) > Available
    /\ Len(final_messages) = 2

\* the entries of the result that are bare role/content pairs
BareEntries ==
    {i \in 1..Len(final_messages) : DOMAIN final_messages[i] = {"role", "content"}}

\* C8: in both modes the result starts with the entry
\* {role: system, content: prompt} exactly when the prompt is non-empty, and
\* no second such entry is added.
C8_SystemEntryFirst ==
    pc = "done" =>
        /\ system_prompt # "" =>
              /\ final_messages # <<>>
              /\ final_messages[1] = [role |-> "system", content |-> system_prompt]
        /\ BareEntries = 1..SystemEntries

\* the prompt entry stands alone: history inclusion returned no message
C8_Witness ==
    /\ Budgeted
    /\ system_prompt # ""
    /\ messages # <<>>
    /\ final_messages = <<[role |-> "system", content |-> system_prompt]>>

\* C9: _prepare_api_context leaves the chat as it found it: the same
\* messages with the same role, content and timestamp, in the same order.
C9_HistoryUnchanged ==
    [][(pc = "start" /\ pc' = "done") => messages' = messages]_vars

\* the budgeter has walked a chat and returned part of it
C9_Witness ==
    /\ Budgeted
    /\ Len(messages) >= 2
    /\ ReturnedHistory # <<>>
    /\ Len(ReturnedHistory) < Len(messages)

\* C10 as stated: starting from an empty ChatHistory, after any sequence of
\* add_message and clear calls at most max_length messages are stored.
C10_Original ==
    pc = "history" => Len(ch_messages) <= ch_max_length

\* C5 as stated: when _send has added the user's message and history
\* inclusion returns no history message (nothing fits the budget), no
\* request is issued: no worker becomes current, no assistant placeholder
\* is appended after the user's message and the UI does not enter the
\* requesting state, whether or not the system prompt is empty.
C5_Original ==
    [][(/\ pc = "app"
        /\ ~ui_requesting
        /\ now' > now
        /\ send_context
        /\ Len(final_messages') = SystemEntries)
       => (/\ current_worker' = "None"
           /\ w_pc' = "none"
           /\ ~ui_requesting'
           /\ streaming_msg' = 0
           /\ Len(messages') = Len(messages) + 1)]_vars

\* C11 as stated: when a system-role message is at position 0 and an
\* add_message triggers trimming, afterwards that system message is still at
\* position 0 and is followed by the most recent messages in insertion
\* order, also when the added message equals the system message by value.
C11_Original ==
    [][(/\ pc = "history"
        /\ ch_messages # <<>>
        /\ ch_messages[1].role = "system"
        /\ Len(ch_messages) >= ch_max_length
        /\ ch_messages' # <<>>)
       => (/\ ch_messages'[1] = ch_messages[1]
           /\ \E message \in HistoryMessages :
                 LET all == Append(ch_messages, message)
                     n == Len(ch_messages') - 1
                 IN Tail(ch_messages') = SubSeq(all, Len(all) - n + 1, Len(all)))]_vars

\* C12: _trim_history is idempotent: a second call changes nothing, and a
\* history of at most max_length messages is left as it is by the first.
C12_TrimIdempotent ==
    [][/\ (pc = "trim1" /\ pc' = "trim2") => ch_messages' = ch_messages
       /\ (pc = "trim0" /\ pc' = "trim1" /\ Len(ch_messages) <= ch_max_length)
             => ch_messages' = ch_messages]_vars

\* trimmed twice, and the system message was kept on top of max_length others
C12_Witness ==
    /\ pc = "trim2"
    /\ Len(ch_messages) = ch_max_length + 1
    /\ ch_messages[1].role = "system"

----------------------------------------------------------------------------
(* Vocabulary of the properties of the message stores *)

\* the messages of the store in use
Stored == IF pc = "widget" THEN messages ELSE ch_messages

\* the same length and order, and role, content and timestamp agree
SameFields(a, b) ==
    /\ Len(a) = Len(b)
    /\ \A i \in 1..Len(a) :
          /\ a[i].role = b[i].role
          /\ a[i].content = b[i].content
          /\ a[i].timestamp = b[i].timestamp

\* a record without role, content or timestamp, or whose timestamp is not
\* a text of decimal digits
StructurallyInvalid(d) ==
    \/ ~({"role", "content", "timestamp"} \subseteq DOMAIN d)
    \/ Len(d.timestamp) = 0
    \/ \E i \in 1..Len(d.timestamp) : ~IsDigit(SubSeq(d.timestamp, i, i))

\* C13: importing what export_history returned for a non-empty history H
\* succeeds and yields messages of the same number and order, each with the
\* role, content and timestamp it has in H; in ChatWidget and in
\* desktop_app's ChatHistory.
C13_RoundTrip ==
    [][(/\ pc \in {"widget", "chathistory"}
        /\ op' = "import_history"
        /\ Stored # <<>>
        /\ file' = export_history(Stored))
       => (/\ raised' = "None"
           /\ SameFields(Stored', Stored))]_vars

\* the export of a history has been imported again: the history holds a
\* message created by add_message at instant 0, which no file tried holds,
\* next to one stamped with a two-digit instant
C13_Witness ==
    /\ pc \in {"widget", "chathistory"}
    /\ op = "import_history"
    /\ raised = "None"
    /\ file = export_history(Stored)
    /\ \E i \in 1..Len(Stored) : Stored[i].timestamp = 0
    /\ \E i \in 1..Len(Stored) : Stored[i].timestamp >= 10

\* C14: when a record of the imported data is structurally invalid,
\* import_history raises one error (ValueError in ChatWidget) and no record
\* of the data enters the history: ChatWidget's list is empty afterwards,
\* desktop_app's ChatHistory holds what it held before.
C14_AllOrNothing ==
    [][(/\ pc \in {"widget", "chathistory"}
        /\ op' = "import_history"
        /\ \E i \in 1..Len(file') : StructurallyInvalid(file'[i]))
       => IF pc = "widget"
          THEN raised' = "ValueError" /\ messages' = <<>>
          ELSE raised' # "None" /\ ch_messages' = ch_messages]_vars

\* an import whose first record is well-formed and whose second is not has
\* failed, and the store holds nothing
C14_Witness ==
    /\ pc \in {"widget", "chathistory"}
    /\ op = "import_history"
    /\ Len(file) = 2
    /\ ~StructurallyInvalid(file[1])
    /\ StructurallyInvalid(file[2])
    /\ raised # "None"
    /\ Stored = <<>>

\* C20 as stated: a call of add_stream_chunk while no message is live
\* signals the misuse by raising.
C20_Original ==
    [][(/\ pc = "widget"
        /\ op' = "add_stream_chunk"
        /\ op # "add_stream_chunk"
        /\ streaming_msg = 0)
       => raised' # "None"]_vars

----------------------------------------------------------------------------
(* Properties of the streaming of openchat_with_plugins *)

\* C16 as stated: once _stop_request has set the stop flag of the current
\* request, a fragment delivered afterwards is not appended to the target
\* message.
C16_Original ==
    [][(/\ pc = "app"
        /\ w_stop
        /\ current_worker # "None"
        /\ signals # <<>>
        /\ Head(signals).sig = "chunk"
        /\ signals' = Tail(signals))
       => messages' = messages]_vars

\* C19 as stated: a request ends in one terminal outcome only: the content
\* of a message that was replaced by the failure display never also carries
\* the cancellation marker.
C19_Original ==
    pc = "app" =>
        \A i \in 1..Len(messages) :
            ~(/\ Contains(messages[i].content, "Fehler (Code:")
              /\ Contains(messages[i].content, "[Abgebrochen]"))

----------------------------------------------------------------------------
(* Properties of the streaming of desktop_app *)

\* the finished signal of the request sent last is being handled, and
\* nothing else of any request is pending
LastRequestFinishes ==
    /\ pc = "desktop"
    /\ signals = <<[sig |-> "finished"]>>
    /\ signals' = <<>>
    /\ w_pc = "done"
    /\ w_waiting = 0
    /\ current_worker # "None"

\* the message _on_worker_finish commits in this step
Committed == ch_messages'[Len(ch_messages')]

\* C15 as stated: when a streaming request finishes with no stop request
\* and no error, the finalized assistant message holds exactly the
\* concatenation of the fragments in the order emitted.
C15_Original ==
    [][(LastRequestFinishes /\ ui_requesting /\ ~w_stop)
       => (/\ ch_messages' # <<>>
           /\ Committed.role = "assistant"
           /\ Committed.content = current_assistant_message)]_vars

\* C17 as stated: when a stop was requested during a request and the stream
\* has terminated, the assistant message that is committed ends with the
\* cancellation marker.
C17_Original ==
    [][(LastRequestFinishes /\ ui_requesting /\ w_stop)
       => (/\ ch_messages' # <<>>
           /\ Committed.role = "assistant"
           /\ Contains(Committed.content, "[Abgebrochen]"))]_vars

\* C18 as stated: when the request failed (its error was handled, which
\* put the UI back to idle before finished arrives), finishing it leaves no
\* assistant message with the partial or empty streamed text in the
\* history.
C18_Original ==
    [][(LastRequestFinishes /\ ~ui_requesting)
       => \A i \in 1..Len(ch_messages') :
             ~(/\ ch_messages'[i].role = "assistant"
               /\ ch_messages'[i].timestamp = now)]_vars

----------------------------------------------------------------------------
(* Properties of the request cycle of openchat_with_plugins *)

\* C21: at most one message is live and at most one request is in flight.
\* The live streaming target is the last message of the chat and an assistant
\* message, it is live only while a worker is current, a worker runs only
\* while it is the current one, and _send creates a target only when no
\* worker is current and no target is live.
C21_SingleLiveTarget ==
    /\ [](pc = "app" =>
            /\ streaming_msg # 0 =>
                  /\ streaming_msg = Len(messages)
                  /\ messages[streaming_msg].role = "assistant"
                  /\ current_worker # "None"
            /\ w_pc \in {"queued", "lines", "finally"} => current_worker # "None")
    /\ [][(/\ pc = "app"
           /\ \/ streaming_msg' # 0 /\ streaming_msg' # streaming_msg
              \/ w_pc' = "queued" /\ w_pc # "queued")
          => (current_worker = "None" /\ streaming_msg = 0 /\ w_pc = "none")]_vars

\* the second request of a run streams into its target
C21_Witness ==
    /\ pc = "app"
    /\ streaming_msg > 2
    /\ w_pc = "lines"
    /\ w_lines > 0
    /\ current_worker = "worker"

----------------------------------------------------------------------------
(* Properties of cancellation *)

\* C22: a stop request made while a request is current is never lost: once
\* set for that request, the cancellation flag stays true until the request
\* has been finished.  Stated for the first request of a run of desktop_app,
\* where a set flag can only come from a stop of this request: while that
\* request is current and no error or finished signal of it has been
\* handled, no step resets the flag.
C22_Original ==
    [][(/\ pc = "desktop"
        /\ now = 1
        /\ ui_requesting
        /\ current_worker # "None"
        /\ w_stop)
       => w_stop']_vars

\* the same for openchat_with_plugins, where set_request_data resets the flag
\* of the new worker inside _send
StopKeptByPlugins ==
    [][(pc = "app" /\ ui_requesting /\ current_worker # "None" /\ w_stop)
       => w_stop']_vars

----------------------------------------------------------------------------
(* Properties of the plugin hooks *)

\* C23: a message's role never changes, and its content changes only while
\* it is the live streaming target and the stream has not ended: handling
\* the finished signal, plugin dispatch included, leaves every content as
\* it was streamed.
C23_Original ==
    [][pc = "app" =>
         \A i \in 1..Len(messages) :
            (i <= Len(messages') /\ messages'[i].timestamp = messages[i].timestamp)
            => /\ messages'[i].role = messages[i].role
               /\ messages'[i].content # messages[i].content
                     => /\ streaming_msg = i
                        /\ ~(signals # <<>> /\ Head(signals).sig = "finished")]_vars

----------------------------------------------------------------------------
(* Properties of the transport errors *)

\* C24: a malformed stream payload is never swallowed: the request in which
\* it was read ends with an error signal handled by the foreground.  Stated
\* for the first request of a run of desktop_app: when its finished signal
\* is handled after a payload failed to parse, _handle_error has run (it
\* alone has put the window back to idle before finished).
C24_Original ==
    [][(/\ pc = "desktop"
        /\ now = 1
        /\ raised = "JSONDecodeError"
        /\ signals # <<>>
        /\ Head(signals).sig = "finished"
        /\ signals' = Tail(signals))
       => ~ui_requesting]_vars

\* the handler that dispatched last was _send and a plugin handled its text
Handled ==
    /\ hook_calls # <<>>
    /\ hook_calls[Len(hook_calls)].hook = "on_user_message"
    /\ hook_calls[Len(hook_calls)].result = "True"

\* C25: plugins are consulted for user input in load order, and the first
\* one whose on_user_message returns True ends the processing: no plugin
\* after it is consulted, the text is not added to the chat and no request
\* is started; a request is started only once every loaded plugin has been
\* consulted and none has returned True.
C25_UserHookContract ==
    /\ [](pc = "app" =>
            /\ Len(hook_calls) <= Len(plugins)
            /\ \A i \in 1..Len(hook_calls) :
                  /\ hook_calls[i].plugin = plugins[i]
                  /\ i < Len(hook_calls) => hook_calls[i].result # "True"
            /\ Handled => (current_worker = "None" /\ w_pc = "none"
                           /\ ~ui_requesting /\ streaming_msg = 0))
    /\ [][(pc = "app" /\ Handled')
          => (/\ now' = now
              /\ final_messages' = final_messages
              /\ messages' \in {messages, <<>>})]_vars
    /\ [][(pc = "app" /\ w_pc = "none" /\ w_pc' = "queued")
          => (/\ Len(hook_calls') = Len(plugins)
              /\ \A i \in 1..Len(plugins) :
                    /\ hook_calls'[i].hook = "on_user_message"
                    /\ hook_calls'[i].result # "True")]_vars

\* "/clear" was sent to a chat that held an answer: the plugin after
\* CommandPlugin was not consulted and the chat is empty
C25_Witness ==
    /\ pc = "app"
    /\ Handled
    /\ Len(hook_calls) < Len(plugins)
    /\ messages = <<>>
    /\ now > 0

----------------------------------------------------------------------------
(* Properties of the end of a request *)

\* the UI is idle: input enabled, no current worker, no live message
Idle == ~ui_requesting /\ current_worker = "None" /\ streaming_msg = 0

\* C26: every started request terminates for the foreground.  The worker
\* emits finished once per request and after all its other signals (finished
\* is the last signal queued, and a worker that has emitted it emits nothing
\* more), handling finished leaves the UI idle, and every request that has
\* been started leads to the idle UI.
C26_RequestTerminates ==
    /\ [](pc = "app" =>
            /\ \A i \in 1..Len(signals) :
                  signals[i].sig = "finished" => i = Len(signals)
            /\ w_pc \in {"queued", "lines", "finally"} =>
                  \A i \in 1..Len(signals) : signals[i].sig # "finished"
            /\ w_pc = "done" =>
                  (signals # <<>> /\ signals[Len(signals)].sig = "finished"))
    /\ [][(pc = "app" /\ w_pc = "done") => Len(signals') <= Len(signals)]_vars
    /\ [][(pc = "app" /\ signals # <<>> /\ Head(signals).sig = "finished"
           /\ signals' = Tail(signals)) => Idle']_vars
    /\ (pc = "app" /\ current_worker = "worker") ~> (pc = "app" /\ Idle)

\* a cancelled request with a fragment delivered has been finished and the
\* UI is idle again
C26_Witness ==
    /\ pc = "app"
    /\ Idle
    /\ w_pc = "none"
    /\ signals = <<>>
    /\ messages # <<>>
    /\ Contains(messages[Len(messages)].content, "Hel\n\n[Abgebrochen]")

----------------------------------------------------------------------------
(* Properties of the size of a ChatHistory *)

\* C27: from an empty ChatHistory, add_message and clear never leave more
\* than max_length + 1 messages, and max_length + 1 only with a system
\* message at position 0 followed by the max_length messages added last, in
\* the order they were added: an add_message that leaves max_length + 1
\* messages leaves, behind the system message, the last max_length - 1 of
\* the messages held before and then the message just added.
C27_AtMostOneOver ==
    /\ [](pc = "history" =>
            /\ Len(ch_messages) <= ch_max_length + 1
            /\ Len(ch_messages) = ch_max_length + 1 =>
                  ch_messages[1].role = "system")
    /\ [][(/\ pc = "history"
           /\ ch_messages' # ch_messages
           /\ Len(ch_messages') = ch_max_length + 1)
          => (/\ Len(ch_messages) >= ch_max_length
              /\ ch_messages'[1] = ch_messages[1]
              /\ \A j \in 1..(ch_max_length - 1) :
                    ch_messages'[1 + j] =
                       ch_messages[Len(ch_messages) - ch_max_length + 1 + j])]_vars

\* a history of max_length + 1 messages with max_length at least 2
C27_Witness ==
    /\ pc = "history"
    /\ ch_max_length >= 2
    /\ Len(ch_messages) = ch_max_length + 1
    /\ ch_messages[1].role = "system"
    /\ ch_messages[2].role = "user"

----------------------------------------------------------------------------
(* Properties of the dispatch of on_api_response *)

\* the codes an error signal of ApiWorker can carry
ErrorCodes ==
    {HTTP_UNAUTHORIZED, CODE_CANCELLED, CODE_NETWORK, CODE_UNEXPECTED,
     CODE_PARSE, CODE_EMPTY}

\* _handle_error has put an error text in place of the answer
Failed(content) == \E code \in ErrorCodes : content = error_display(code)

\* _handle_error has appended the cancellation marker to the answer
Cancelled(content) ==
    /\ Len(content) >= Len(CancelMarker)
    /\ SubSeq(content, Len(content) - Len(CancelMarker) + 1, Len(content))
          = CancelMarker

\* every loaded plugin got on_api_response, once and in load order
DispatchedToAll(calls) ==
    /\ Len(calls) = Len(plugins)
    /\ \A i \in 1..Len(calls) :
          calls[i].plugin = plugins[i] /\ calls[i].hook = "on_api_response"

\* C28: when finished is handled, on_api_response is dispatched, once to
\* every loaded plugin, if and only if the request completed without
\* cancellation or failure (no error text was put in place of the answer
\* and no cancellation marker was appended to it), whatever the answer reads.
C28_Original ==
    [][(/\ pc = "app"
        /\ signals # <<>>
        /\ Head(signals).sig = "finished"
        /\ signals' = Tail(signals)
        /\ streaming_msg # 0)
       => (DispatchedToAll(hook_calls')
             <=> (/\ ~Failed(messages[streaming_msg].content)
                  /\ ~Cancelled(messages[streaming_msg].content)))]_vars

----------------------------------------------------------------------------
(* Properties of the web client *)

\* what the client stores as the response generated for a user message
GeneratedFor(user_text) == {Answer(user_text), Apology}

\* C29: after a successful handle_chat_interaction every displayed pair
\* holds a user message and the response that was generated for that same
\* message, whatever calls, successful or failing, came before.
C29_Original ==
    (pc = "web" /\ op = "handle_chat_interaction" /\ raised = "None")
    => \A i \in 1..Len(chatbot) : chatbot[i][2] \in GeneratedFor(chatbot[i][1])

----------------------------------------------------------------------------
(* Properties of the import into the ChatWidget *)

\* C30: ChatWidget.import_history discards the conversation it holds before
\* it validates the data.  After a call that fails with the format error
\* (ValueError) the list is empty and no streaming target is live, whatever
\* was held before; after a successful call the list holds exactly the
\* imported records, in order, and no target is live.
C30_DiscardsBeforeValidating ==
    [][(pc = "widget" /\ op' = "import_history")
       => /\ streaming_msg' = 0
          /\ raised' \in {"None", "ValueError"}
          /\ raised' = "ValueError" => messages' = <<>>
          /\ raised' = "None" =>
                /\ Len(messages') = Len(file')
                /\ \A i \in 1..Len(file') :
                      /\ messages'[i].role = file'[i].role
                      /\ messages'[i].content = file'[i].content
                      /\ messages'[i].timestamp =
                            fromisoformat(file'[i].timestamp).value]_vars

\* a widget to which messages had been added holds nothing after an import
\* that failed on the second record of the file
C30_Witness ==
    /\ pc = "widget"
    /\ op = "import_history"
    /\ raised = "ValueError"
    /\ now > 0
    /\ Len(file) = 2
    /\ record_error(file[1]) = "None"
    /\ messages = <<>>
    /\ streaming_msg = 0

====
